---------------------------- MODULE Spec2Model ----------------------------
(***************************************************************************)
(* Model of the WebSocket session handler of app/main.py:                  *)
(* websocket_endpoint (configuration handshake, session initialisation,    *)
(* asyncio.gather of the two pumps, finally block), upstream_task and      *)
(* downstream_task.                                                        *)
(*                                                                         *)
(* asyncio runs the handler and the two pumps on one event loop: a task    *)
(* runs without interruption from one await to the next.  Every action     *)
(* below is one such run; where a run is split into several steps so that  *)
(* the order of its statements is visible (the tail of the ENDING          *)
(* sequence), the other tasks are kept from running in between (InSync).   *)
(***************************************************************************)
EXTENDS Naturals, Sequences, FiniteSets

\* Bounds of the model.
MaxFrames == 3      \* inbound frames the client sends over the session
MaxEvents == 2      \* events the agent stream yields over the session

(***************************************************************************)
(* Texts are sequences of one-character strings.                           *)
(***************************************************************************)
Uppercase == <<"A","B","C","D","E","F","G","H","I","J","K","L","M",
               "N","O","P","Q","R","S","T","U","V","W","X","Y","Z">>
Lowercase == <<"a","b","c","d","e","f","g","h","i","j","k","l","m",
               "n","o","p","q","r","s","t","u","v","w","x","y","z">>
Digits == {"0","1","2","3","4","5","6","7","8","9"}

\* re.IGNORECASE: letters compare by their lower-case form.
LowerOf ==
    [c \in { Uppercase[i] : i \in 1..26 } |->
        Lowercase[CHOOSE i \in 1..26 : Uppercase[i] = c]]

Lower(c) == IF c \in DOMAIN LowerOf THEN LowerOf[c] ELSE c

\* \w of the pattern: letters, digits and the underscore.
WordChars ==
    { Lowercase[i] : i \in 1..26 } \cup { Uppercase[i] : i \in 1..26 }
        \cup Digits \cup {"_"}

IsWordChar(c) == c \in WordChars

\* \s of the pattern.
IsSpace(c) == c \in {" ", "\t", "\n", "\r", "\f"}

\* The alternatives of end_pattern, each a sequence of words joined by \s*.
\* (The alternative "goodbye" is "good" \s* "bye" with no whitespace.)
EndPhrases ==
    { << <<"g","o","o","d">>, <<"b","y","e">> >>,
      << <<"g","o","o","d","b","y","e">> >>,
      << <<"f","a","r","e","w","e","l","l">> >>,
      << <<"l","e","s","s","o","n">>, <<"c","o","m","p","l","e","t","e">> >>,
      << <<"e","n","d">>, <<"o","f">>, <<"l","e","s","s","o","n">> >> }

\* The word w occurs in s at position i, ignoring case.
WordAt(s, i, w) ==
    /\ i + Len(w) - 1 <= Len(s)
    /\ \A k \in 1..Len(w) : Lower(s[i + k - 1]) = w[k]

\* The positions \s* can reach from position i.
AfterSpaces(s, i) ==
    { j \in i..(Len(s) + 1) : \A k \in i..(j - 1) : IsSpace(s[k]) }

\* The positions just after a match of the words k.. of phrase ph that
\* starts at position i of s.
RECURSIVE PhraseEnds(_, _, _, _)
PhraseEnds(s, i, ph, k) ==
    IF ~WordAt(s, i, ph[k]) THEN {}
    ELSE IF k = Len(ph) THEN {i + Len(ph[k])}
    ELSE UNION { PhraseEnds(s, j, ph, k + 1) :
                 j \in AfterSpaces(s, i + Len(ph[k])) }

\* \b left out of the pattern.
NoWordBoundary(s, p) == TRUE

\* \b at position p (between s[p-1] and s[p]).
WordBoundary(s, p) ==
    LET before == p > 1 /\ IsWordChar(s[p - 1])
        after  == p <= Len(s) /\ IsWordChar(s[p])
    IN  before # after

\* end_pattern.search(text) finds a match.
end_pattern_search(s) ==
    \E i \in 1..Len(s) :
        /\ WordBoundary(s, i)
        /\ \E ph \in EndPhrases :
             \E j \in PhraseEnds(s, i, ph, 1) : WordBoundary(s, j)

(***************************************************************************)
(* Inbound frames.  A message of websocket.receive() holds the key "text"  *)
(* (a text frame), the key "bytes" (a binary frame) or neither (the        *)
(* disconnect message).  A text frame's payload parses to a JSON object,   *)
(* parses to something that is no object, or does not parse.  A JSON       *)
(* object is a record over the keys the handler reads, Absent marking a    *)
(* key the object does not hold.                                           *)
(***************************************************************************)
Absent == "<absent>"

Json(ty, topic, title, text, data, mimeType) ==
    [type |-> ty, topic |-> topic, title |-> title, text |-> text,
     data |-> data, mimeType |-> mimeType]

NoJson == Json(Absent, Absent, Absent, Absent, Absent, Absent)

ConfigObjects ==
    { Json("config", "Python", Absent, Absent, Absent, Absent),
      Json("config", Absent, "Loops", Absent, Absent, Absent) }

TextObjects ==
    { Json("text", Absent, Absent, x, Absent, Absent) : x \in {Absent, "hi"} }

ImageObjects ==
    { Json("image", Absent, Absent, Absent, "aGk=", Absent),
      Json("image", Absent, Absent, Absent, "aGk=", "image/png"),
      Json("image", Absent, Absent, Absent, Absent, Absent) }

OtherObjects ==
    { Json("ping", Absent, Absent, Absent, Absent, Absent), NoJson }

JsonObjects == ConfigObjects \cup TextObjects \cup ImageObjects \cup OtherObjects

TextFrame(parse, obj) == [ws |-> "text", parse |-> parse, obj |-> obj]

BinaryFrame == [ws |-> "bytes", parse |-> "none", obj |-> NoJson]

Frames ==
    {BinaryFrame}
    \cup { TextFrame("object", o) : o \in JsonObjects }
    \cup { TextFrame("nonobject", NoJson), TextFrame("invalid", NoJson) }

\* The well-formed frames of the three kinds upstream_task handles: binary
\* audio, text with its "text", image with its "data".
HandledFrames ==
    { BinaryFrame,
      TextFrame("object", Json("text", Absent, Absent, "hi", Absent, Absent)),
      TextFrame("object", Json("image", Absent, Absent, Absent, "aGk=", Absent)),
      TextFrame("object", Json("image", Absent, Absent, Absent, "aGk=", "image/png")) }

\* The JSON objects of another type, or of none, that are no Config frame.
UnhandledFrames == { TextFrame("object", o) : o \in OtherObjects }

\* dict.get(key, default)
Get(obj, key, default) == IF obj[key] = Absent THEN default ELSE obj[key]

\* json.loads(text_data) followed by json_message.get("type"): raises when
\* the text is no JSON or the JSON value is no object.
DecodeRaises(f) == f.parse # "object"

(***************************************************************************)
(* Agent events.  event.content is None, or a Content whose parts is None  *)
(* or a list of parts; a part holds a text or not (audio, function call).  *)
(***************************************************************************)
TextPart(t) == [hasText |-> TRUE, text |-> t]
AudioPart == [hasText |-> FALSE, text |-> <<>>]

TxtGoodBye == <<"O","K"," ","G","O","O","D"," ","B","Y","E">>
TxtHello == <<"h","e","l","l","o">>

Event(content, parts) == [content |-> content, parts |-> parts]

EventShapes ==
    { Event("none", <<>>),
      Event("noparts", <<>>),
      Event("parts", <<AudioPart>>),
      Event("parts", <<TextPart(TxtHello)>>),
      Event("parts", <<AudioPart, TextPart(TxtGoodBye)>>) }

\* Iterating event.content.parts raises when parts is None.
PartsRaise(e) == e.content = "noparts"

\* ShouldEnd that looks at the first part only.
ShouldEndFirstPartOnly(e) ==
    /\ e.content = "parts"
    /\ Len(e.parts) > 0
    /\ e.parts[1].hasText
    /\ Len(e.parts[1].text) > 0
    /\ end_pattern_search(e.parts[1].text)

\* should_end after the scan of the event's parts.
ShouldEnd(e) ==
    /\ e.content = "parts"
    /\ \E i \in 1..Len(e.parts) :
         /\ e.parts[i].hasText
         /\ Len(e.parts[i].text) > 0
         /\ end_pattern_search(e.parts[i].text)

(***************************************************************************)
(* The events the scan of lines 308-317 is run on by itself: one text     *)
(* part whose text is a prefix, words joined by separators, and a suffix,  *)
(* and the shapes an event can have.                                       *)
(***************************************************************************)
Upper(c) ==
    IF \E i \in 1..26 : Lowercase[i] = c
    THEN Uppercase[CHOOSE i \in 1..26 : Lowercase[i] = c]
    ELSE c

UpperWord(w) == [k \in 1..Len(w) |-> Upper(w[k])]
Capitalized(w) == [k \in 1..Len(w) |-> IF k = 1 THEN Upper(w[k]) ELSE w[k]]

\* The words joined: sep1 after the first word, sep2 after the later ones.
RECURSIVE JoinWords(_, _, _)
JoinWords(ws_, sep1, sep2) ==
    IF Len(ws_) = 0 THEN <<>>
    ELSE IF Len(ws_) = 1 THEN ws_[1]
    ELSE ws_[1] \o sep1 \o JoinWords(Tail(ws_), sep2, sep2)

DetectorWordLists ==
    LET good == <<"g","o","o","d">>
        bye == <<"b","y","e">>
        by == <<"b","y">>
        farewell == <<"f","a","r","e","w","e","l","l">>
        fare == <<"f","a","r","e">>
        well == <<"w","e","l","l">>
        lesson == <<"l","e","s","s","o","n">>
        complete == <<"c","o","m","p","l","e","t","e">>
        end == <<"e","n","d">>
        of == <<"o","f">>
    IN  { <<good, bye>>, <<good \o bye>>, <<farewell>>, <<lesson, complete>>,
          <<end, of, lesson>>,
          <<UpperWord(good), UpperWord(bye)>>, <<Capitalized(good \o bye)>>,
          <<Capitalized(farewell)>>,
          <<UpperWord(lesson), UpperWord(complete)>>,
          <<Capitalized(end), of, UpperWord(lesson)>>,
          <<good, by>>, <<bye, good>>, <<fare, well>>, <<lesson>>,
          <<complete, lesson>>, <<end, lesson>>, <<end, of>>, <<of, lesson>> }

DetectorSeparators ==
    { <<>>, <<" ">>, <<" ", " ", " ">>, <<"\t", "\n">>, <<"-">>, <<"x">> }

DetectorPrefixes == { <<>>, <<"x">>, <<"_">>, <<"t","h","e"," ">>, <<"(">> }

DetectorSuffixes == { <<>>, <<"v","i","l","l","e">>, <<"1">>, <<","," ","s","e","e"," ","y","o","u","!">>, <<" ","n","o","w">> }

DetectorTexts ==
    { p \o JoinWords(wl, s1, s2) \o q :
        p \in DetectorPrefixes, wl \in DetectorWordLists,
        s1 \in DetectorSeparators, s2 \in DetectorSeparators,
        q \in DetectorSuffixes }

DetectorEvents ==
    { Event("parts", <<TextPart(t)>>) : t \in DetectorTexts }
    \cup EventShapes
    \cup { Event("parts", ps) : ps \in
             { <<>>, <<TextPart(<<>>)>>, <<AudioPart, AudioPart>>,
               <<TextPart(TxtHello), AudioPart>>,
               <<TextPart(TxtHello), TextPart(TxtHello)>>,
               <<TextPart(TxtHello), TextPart(TxtGoodBye)>>,
               <<TextPart(TxtGoodBye), TextPart(TxtHello)>>,
               <<TextPart(<<>>), AudioPart, TextPart(TxtGoodBye)>> } }

(***************************************************************************)
(* Outbound frames and the calls made on the LiveRequestQueue.             *)
(***************************************************************************)
NoEvent == Event("none", <<>>)

OutFrame(ty, topic, title, ev) ==
    [type |-> ty, topic |-> topic, title |-> title, event |-> ev]

ErrorFrame == OutFrame("error", Absent, Absent, NoEvent)
AckFrame(topic, title) == OutFrame("config_ack", topic, title, NoEvent)
EventFrame(ev) == OutFrame("event", Absent, Absent, ev)
EndFrame == OutFrame("conversation_end", Absent, Absent, NoEvent)

Call(op, mime) == [op |-> op, mime |-> mime]
CloseCall == Call("close", Absent)

VARIABLES
    hPc,                 \* websocket_endpoint: where the handler is
    ws,                  \* the connection: connected, dropped, disconnected
    nRecv,               \* inbound frames received so far
    config_received,     \* line 97
    config_data,         \* line 98
    conversation_ended,  \* line 101, the asyncio.Event
    session_initialized, \* configure_agent_for_topic has run
    queue,               \* live_request_queue: none, open, closed
    qlog,                \* the calls made on live_request_queue, in order
    clientOut,           \* the frames sent to the client, in order
    upPc,                \* upstream_task: where the pump is
    downPc,              \* downstream_task: where the pump is
    event,               \* downstream_task: the event in hand
    should_end,          \* downstream_task: line 309
    agentLog,            \* the events run_live() has yielded, in order
    hsNonConfig,         \* frames other than Config received by the handshake
    config_frame,        \* the JSON object of the Config frame accepted
    lateConfigs,         \* Config frames received by upstream_task
    upIgnored,           \* other frames of unhandled type received by it
    upLog                \* the handled frames received by it, in order

vars == <<hPc, ws, nRecv, config_received, config_data, conversation_ended,
          session_initialized, queue, qlog, clientOut, upPc, downPc, event,
          should_end, agentLog, hsNonConfig, config_frame, lateConfigs,
          upIgnored, upLog>>

hsVars == <<config_received, config_data, session_initialized, hsNonConfig,
            config_frame, lateConfigs, upIgnored, upLog>>
pumpVars == <<upPc, downPc, event, should_end, agentLog>>
queueVars == <<queue, qlog>>

Init ==
    /\ hPc = "wait_config"
    /\ ws = "connected"
    /\ nRecv = 0
    /\ config_received = FALSE
    /\ config_data = [topic |-> Absent, title |-> Absent]
    /\ conversation_ended = FALSE
    /\ session_initialized = FALSE
    /\ queue = "none"
    /\ qlog = <<>>
    /\ clientOut = <<>>
    /\ upPc = "idle"
    /\ downPc = "idle"
    /\ event = NoEvent
    /\ should_end = FALSE
    /\ agentLog = <<>>
    /\ hsNonConfig = 0
    /\ config_frame = NoJson
    /\ lateConfigs = 0
    /\ upIgnored = 0
    /\ upLog = <<>>

(***************************************************************************)
(* The connection.  websocket.receive() returns the next frame while the   *)
(* peer is there; once the peer is gone it returns the disconnect message  *)
(* (or raises WebSocketDisconnect), and raises on every call after that.   *)
(* websocket.send_text() raises once the connection is gone.  The server   *)
(* closes the connection when the handler returns.                         *)
(***************************************************************************)
\* Lines 333-341 run without an await: no other task runs in between.
InSync == downPc \in {"close", "break"}

ClientDisconnect ==
    /\ ~InSync
    /\ ws = "connected"
    /\ ws' = "dropped"
    /\ UNCHANGED <<hPc, nRecv, conversation_ended, clientOut>>
    /\ UNCHANGED <<hsVars, pumpVars, queueVars>>

ServerClose(w) == IF w = "connected" THEN "dropped" ELSE w

(***************************************************************************)
(* Phase 2: wait for configuration, lines 107-156.                         *)
(***************************************************************************)
\* ConfigOf with the two defaults exchanged.
ConfigOfSwappedDefaults(obj) ==
    [topic |-> Get(obj, "topic", "Introduction"),
     title |-> Get(obj, "title", "General")]

\* Lines 120-121: the topic and title of a config message.
ConfigOf(obj) ==
    [topic |-> Get(obj, "topic", "General"),
     title |-> Get(obj, "title", "Introduction")]

\* Lines 112-149 for a frame that is there: one turn of the while loop.
HandshakeReceive(f) ==
    /\ hPc = "wait_config"
    /\ ws = "connected"
    /\ nRecv < MaxFrames
    /\ nRecv' = nRecv + 1
    /\ IF f.ws # "text"
       THEN \* line 114: no "text" key, nothing is done and the loop goes on
            /\ hsNonConfig' = hsNonConfig + 1
            /\ UNCHANGED <<hPc, ws, config_received, config_data, clientOut,
                           config_frame>>
       ELSE IF DecodeRaises(f)
       THEN \* lines 116/119 raise, lines 154-156 return
            /\ hPc' = "returned"
            /\ ws' = ServerClose(ws)
            /\ UNCHANGED <<config_received, config_data, clientOut, hsNonConfig,
                           config_frame>>
       ELSE IF Get(f.obj, "type", Absent) = "config"
       THEN \* lines 120-142
            /\ config_data' = ConfigOf(f.obj)
            /\ config_received' = TRUE
            /\ clientOut' = Append(clientOut,
                                   AckFrame(ConfigOf(f.obj).topic,
                                            ConfigOf(f.obj).title))
            /\ hPc' = "configured"
            /\ config_frame' = f.obj
            /\ UNCHANGED <<ws, hsNonConfig>>
       ELSE \* lines 143-149
            /\ clientOut' = Append(clientOut, ErrorFrame)
            /\ hsNonConfig' = hsNonConfig + 1
            /\ UNCHANGED <<hPc, ws, config_received, config_data, config_frame>>
    /\ UNCHANGED <<conversation_ended, session_initialized, lateConfigs,
                   upIgnored, upLog>>
    /\ UNCHANGED <<pumpVars, queueVars>>

\* HandshakeDisconnect with the return of line 153 left out: the handler
\* goes on to line 158.
HandshakeDisconnectNoReturn ==
    /\ hPc = "wait_config"
    /\ ws = "dropped"
    /\ \/ /\ hPc' = "configured"
          /\ ws' = ws
       \/ /\ ws' = "disconnected"
          /\ hPc' = hPc
    /\ UNCHANGED <<nRecv, conversation_ended, clientOut>>
    /\ UNCHANGED <<hsVars, pumpVars, queueVars>>

\* Line 112 once the peer is gone: WebSocketDisconnect (lines 151-153), or
\* the disconnect message, which holds no "text" key.
HandshakeDisconnect ==
    /\ hPc = "wait_config"
    /\ ws = "dropped"
    /\ \/ /\ hPc' = "returned"
          /\ ws' = ws
       \/ /\ ws' = "disconnected"
          /\ hPc' = hPc
    /\ UNCHANGED <<nRecv, conversation_ended, clientOut>>
    /\ UNCHANGED <<hsVars, pumpVars, queueVars>>

\* Line 112 after the disconnect message: receive() raises, lines 154-156.
HandshakeReceiveClosed ==
    /\ hPc = "wait_config"
    /\ ws = "disconnected"
    /\ hPc' = "returned"
    /\ UNCHANGED <<ws, nRecv, conversation_ended, clientOut>>
    /\ UNCHANGED <<hsVars, pumpVars, queueVars>>

(***************************************************************************)
(* Phase 3: session initialisation, lines 158-214.                         *)
(***************************************************************************)
InitSession ==
    /\ hPc = "configured"
    /\ session_initialized' = TRUE
    /\ queue' = "open"
    /\ hPc' = "session_ready"
    /\ UNCHANGED <<ws, nRecv, config_received, config_data, conversation_ended,
                   qlog, clientOut, hsNonConfig, config_frame, lateConfigs,
                   upIgnored, upLog>>
    /\ UNCHANGED pumpVars

\* Line 348: asyncio.gather schedules the two pumps.
StartGather ==
    /\ hPc = "session_ready"
    /\ hPc' = "gather"
    /\ upPc' = "start"
    /\ downPc' = "start"
    /\ UNCHANGED <<ws, nRecv, conversation_ended, clientOut, event, should_end,
                   agentLog>>
    /\ UNCHANGED <<hsVars, queueVars>>

(***************************************************************************)
(* Phase 4, upstream_task, lines 220-284.                                  *)
(***************************************************************************)
\* LoopCheck as "while True": the flag is not read.
LoopCheckIgnoresFlag(ended) == "recv"

\* Line 224: the while condition, read when the loop comes round.
LoopCheck(ended) == IF ended THEN "exited" ELSE "recv"

\* UpstreamRaises with a frame of unknown type treated as an error.
UpstreamRaisesOnUnknownType(f) ==
    /\ f.ws = "text"
    /\ \/ DecodeRaises(f)
       \/ Get(f.obj, "type", Absent) = "text" /\ f.obj.text = Absent
       \/ Get(f.obj, "type", Absent) = "image" /\ f.obj.data = Absent
       \/ Get(f.obj, "type", Absent) \notin {"text", "image"}

\* Lines 256-273 raise: the JSON does not decode, json_message['text'] or
\* json_message['data'] is missing.
UpstreamRaises(f) ==
    /\ f.ws = "text"
    /\ \/ DecodeRaises(f)
       \/ Get(f.obj, "type", Absent) = "text" /\ f.obj.text = Absent
       \/ Get(f.obj, "type", Absent) = "image" /\ f.obj.data = Absent

\* Forward with the image's mimeType not read: every image goes out under
\* the default type.
ForwardImageAsJpeg(f) ==
    IF f.ws = "bytes"
    THEN << Call("send_realtime", "audio/pcm;rate=16000") >>
    ELSE IF f.ws # "text" THEN << >>
    ELSE IF Get(f.obj, "type", Absent) = "text"
    THEN << Call("send_content", Absent) >>
    ELSE IF Get(f.obj, "type", Absent) = "image"
    THEN << Call("send_realtime", "image/jpeg") >>
    ELSE << >>

\* Lines 241-282: the calls one received frame makes on live_request_queue.
Forward(f) ==
    IF f.ws = "bytes"
    THEN << Call("send_realtime", "audio/pcm;rate=16000") >>
    ELSE IF f.ws # "text" THEN << >>
    ELSE IF Get(f.obj, "type", Absent) = "text"
    THEN << Call("send_content", Absent) >>
    ELSE IF Get(f.obj, "type", Absent) = "image"
    THEN << Call("send_realtime", Get(f.obj, "mimeType", "image/jpeg")) >>
    ELSE << >>

\* The task starts: line 224 is read for the first time.
UpstreamStart ==
    /\ ~InSync
    /\ upPc = "start"
    /\ upPc' = LoopCheck(conversation_ended)
    /\ UNCHANGED <<hPc, ws, nRecv, conversation_ended, clientOut, downPc, event,
                   should_end, agentLog>>
    /\ UNCHANGED <<hsVars, queueVars>>

\* Lines 231-233: no frame within the timeout, the loop comes round.
UpstreamTimeout ==
    /\ ~InSync
    /\ downPc # "start"
    /\ upPc = "recv"
    /\ upPc' = LoopCheck(conversation_ended)
    /\ UNCHANGED <<hPc, ws, nRecv, conversation_ended, clientOut, downPc, event,
                   should_end, agentLog>>
    /\ UNCHANGED <<hsVars, queueVars>>

\* Lines 227-282 for a frame that is there, and line 224 after it.
UpstreamReceive(f) ==
    /\ ~InSync
    /\ downPc # "start"
    /\ upPc = "recv"
    /\ ws = "connected"
    /\ nRecv < MaxFrames
    /\ nRecv' = nRecv + 1
    /\ IF UpstreamRaises(f)
       THEN /\ upPc' = "raised"
            /\ qlog' = qlog
       ELSE /\ qlog' = qlog \o Forward(f)
            /\ upPc' = LoopCheck(conversation_ended)
    /\ lateConfigs' = IF f.ws = "text" /\ ~DecodeRaises(f)
                         /\ Get(f.obj, "type", Absent) = "config"
                      THEN lateConfigs + 1 ELSE lateConfigs
    /\ upIgnored' = IF f \in UnhandledFrames THEN upIgnored + 1 ELSE upIgnored
    /\ upLog' = IF f \in HandledFrames THEN Append(upLog, f) ELSE upLog
    /\ UNCHANGED <<hPc, ws, conversation_ended, queue, clientOut, downPc, event,
                   should_end, agentLog>>
    /\ UNCHANGED <<config_received, config_data, session_initialized,
                   hsNonConfig, config_frame>>

\* UpstreamDisconnect that also signals the end of the conversation.
UpstreamDisconnectSetsFlag ==
    /\ ~InSync
    /\ downPc # "start"
    /\ upPc = "recv"
    /\ ws = "dropped"
    /\ upPc' = "exited"
    /\ conversation_ended' = TRUE
    /\ UNCHANGED <<hPc, ws, nRecv, clientOut, downPc, event, should_end,
                   agentLog>>
    /\ UNCHANGED <<hsVars, queueVars>>

\* Lines 227-236 once the peer is gone: WebSocketDisconnect and break, or
\* the disconnect message, which holds neither "bytes" nor "text".
UpstreamDisconnect ==
    /\ ~InSync
    /\ downPc # "start"
    /\ upPc = "recv"
    /\ ws = "dropped"
    /\ \/ /\ upPc' = "exited"
          /\ ws' = ws
       \/ /\ ws' = "disconnected"
          /\ upPc' = LoopCheck(conversation_ended)
    /\ UNCHANGED <<hPc, nRecv, conversation_ended, clientOut, downPc, event,
                   should_end, agentLog>>
    /\ UNCHANGED <<hsVars, queueVars>>

\* Lines 237-239: receive() raises after the disconnect message, break.
UpstreamReceiveClosed ==
    /\ ~InSync
    /\ downPc # "start"
    /\ upPc = "recv"
    /\ ws = "disconnected"
    /\ upPc' = "exited"
    /\ UNCHANGED <<hPc, ws, nRecv, conversation_ended, clientOut, downPc, event,
                   should_end, agentLog>>
    /\ UNCHANGED <<hsVars, queueVars>>

(***************************************************************************)
(* Phase 4, downstream_task, lines 286-343.                                *)
(***************************************************************************)
\* The task starts and waits for the first event of run_live().  gather
\* schedules it after upstream_task, and both start before any frame, timeout
\* or event is delivered.
DownstreamStart ==
    /\ downPc = "start"
    /\ upPc # "start"
    /\ downPc' = "next"
    /\ UNCHANGED <<hPc, ws, nRecv, conversation_ended, clientOut, upPc, event,
                   should_end, agentLog>>
    /\ UNCHANGED <<hsVars, queueVars>>

\* Lines 299-317: run_live() yields an event, its parts are scanned.
DownstreamNext(e) ==
    /\ downPc = "next"
    /\ Len(agentLog) < MaxEvents
    /\ agentLog' = Append(agentLog, e)
    /\ IF PartsRaise(e)
       THEN /\ downPc' = "raised"
            /\ UNCHANGED <<event, should_end>>
       ELSE /\ event' = e
            /\ should_end' = ShouldEnd(e)
            /\ downPc' = "send_event"
    /\ UNCHANGED <<hPc, ws, nRecv, conversation_ended, clientOut, upPc>>
    /\ UNCHANGED <<hsVars, queueVars>>

\* Line 299: run_live() is exhausted, line 343.
DownstreamStreamEnd ==
    /\ downPc = "next"
    /\ downPc' = "exited"
    /\ UNCHANGED <<hPc, ws, nRecv, conversation_ended, clientOut, upPc, event,
                   should_end, agentLog>>
    /\ UNCHANGED <<hsVars, queueVars>>

\* Line 299: run_live() raises.
DownstreamStreamFail ==
    /\ downPc = "next"
    /\ downPc' = "raised"
    /\ UNCHANGED <<hPc, ws, nRecv, conversation_ended, clientOut, upPc, event,
                   should_end, agentLog>>
    /\ UNCHANGED <<hsVars, queueVars>>

\* AfterEvent with the test of line 324 left out: every event ends the
\* conversation.
AfterEventAlwaysEnds(end) == "send_end"

\* AfterEvent with lines 324-330 left out: no end signal is sent.
AfterEventNoEndSignal(end) == IF end THEN "set_flag" ELSE "next"

\* Lines 320-323: the event is sent; where the pump goes next.
AfterEvent(end) == IF end THEN "send_end" ELSE "next"

\* DownstreamSendEvent that passes over an event without content.
DownstreamSendEventSkipsEmpty ==
    /\ downPc = "send_event"
    /\ IF ws = "connected"
       THEN /\ clientOut' = IF event.content = "none" THEN clientOut
                             ELSE Append(clientOut, EventFrame(event))
            /\ downPc' = AfterEvent(should_end)
       ELSE /\ downPc' = "raised"
            /\ clientOut' = clientOut
    /\ UNCHANGED <<hPc, ws, nRecv, conversation_ended, upPc, event, should_end,
                   agentLog>>
    /\ UNCHANGED <<hsVars, queueVars>>

DownstreamSendEvent ==
    /\ downPc = "send_event"
    /\ IF ws = "connected"
       THEN /\ clientOut' = Append(clientOut, EventFrame(event))
            /\ downPc' = AfterEvent(should_end)
       ELSE /\ downPc' = "raised"
            /\ clientOut' = clientOut
    /\ UNCHANGED <<hPc, ws, nRecv, conversation_ended, upPc, event, should_end,
                   agentLog>>
    /\ UNCHANGED <<hsVars, queueVars>>

\* DownstreamSendEnd with lines 332-341 left out: the loop goes on.
DownstreamSendEndNoBreak ==
    /\ downPc = "send_end"
    /\ IF ws = "connected"
       THEN /\ clientOut' = Append(clientOut, EndFrame)
            /\ downPc' = "next"
       ELSE /\ downPc' = "raised"
            /\ clientOut' = clientOut
    /\ UNCHANGED <<hPc, ws, nRecv, conversation_ended, upPc, event, should_end,
                   agentLog>>
    /\ UNCHANGED <<hsVars, queueVars>>

\* Lines 324-330: the end signal is sent.
DownstreamSendEnd ==
    /\ downPc = "send_end"
    /\ IF ws = "connected"
       THEN /\ clientOut' = Append(clientOut, EndFrame)
            /\ downPc' = "set_flag"
       ELSE /\ downPc' = "raised"
            /\ clientOut' = clientOut
    /\ UNCHANGED <<hPc, ws, nRecv, conversation_ended, upPc, event, should_end,
                   agentLog>>
    /\ UNCHANGED <<hsVars, queueVars>>

\* DownstreamSetFlag with line 333 left out.
DownstreamSetFlagSkipped ==
    /\ downPc = "set_flag"
    /\ downPc' = "close"
    /\ UNCHANGED <<hPc, ws, nRecv, conversation_ended, clientOut, upPc, event,
                   should_end, agentLog>>
    /\ UNCHANGED <<hsVars, queueVars>>

\* Line 333: conversation_ended.set()
DownstreamSetFlag ==
    /\ downPc = "set_flag"
    /\ conversation_ended' = TRUE
    /\ downPc' = "close"
    /\ UNCHANGED <<hPc, ws, nRecv, clientOut, upPc, event, should_end, agentLog>>
    /\ UNCHANGED <<hsVars, queueVars>>

\* DownstreamCloseQueue with line 337 left out.
DownstreamCloseQueueSkipped ==
    /\ downPc = "close"
    /\ downPc' = "break"
    /\ UNCHANGED <<hPc, ws, nRecv, conversation_ended, clientOut, upPc, event,
                   should_end, agentLog>>
    /\ UNCHANGED <<hsVars, queueVars>>

\* Line 337: live_request_queue.close()
DownstreamCloseQueue ==
    /\ downPc = "close"
    /\ queue' = "closed"
    /\ qlog' = Append(qlog, CloseCall)
    /\ downPc' = "break"
    /\ UNCHANGED <<hPc, ws, nRecv, conversation_ended, clientOut, upPc, event,
                   should_end, agentLog>>
    /\ UNCHANGED hsVars

\* Lines 341-343: break, the task returns.
DownstreamBreak ==
    /\ downPc = "break"
    /\ downPc' = "exited"
    /\ UNCHANGED <<hPc, ws, nRecv, conversation_ended, clientOut, upPc, event,
                   should_end, agentLog>>
    /\ UNCHANGED <<hsVars, queueVars>>

(***************************************************************************)
(* Lines 345-362: asyncio.gather and the finally block.  gather returns    *)
(* when both pumps have returned, and raises as soon as one pump raises;   *)
(* it does not cancel the other pump, which goes on running.               *)
(***************************************************************************)
\* gather that returns only once both pumps have stopped.
GatherWaitsForBoth(up, down) ==
    /\ up \in {"exited", "raised"}
    /\ down \in {"exited", "raised"}

GatherDone(up, down) ==
    \/ up = "exited" /\ down = "exited"
    \/ up = "raised"
    \/ down = "raised"

\* Finally with line 361 left out.
FinallyNoClose ==
    /\ UNCHANGED <<queue, qlog>>
    /\ hPc' = "done"
    /\ ws' = ServerClose(ws)

\* Lines 354-362.
Finally ==
    /\ queue' = "closed"
    /\ qlog' = Append(qlog, CloseCall)
    /\ hPc' = "done"
    /\ ws' = ServerClose(ws)

HandlerFinish ==
    /\ ~InSync
    /\ hPc = "gather"
    /\ GatherDone(upPc, downPc)
    /\ Finally
    /\ UNCHANGED <<nRecv, conversation_ended, clientOut>>
    /\ UNCHANGED <<hsVars, pumpVars>>

(***************************************************************************)
(* The specification.                                                      *)
(***************************************************************************)
Handshake ==
    \/ \E f \in Frames : HandshakeReceive(f)
    \/ HandshakeDisconnect
    \/ HandshakeReceiveClosed

Handler ==
    \/ Handshake
    \/ InitSession
    \/ StartGather
    \/ HandlerFinish

Upstream ==
    \/ UpstreamStart
    \/ UpstreamTimeout
    \/ \E f \in Frames : UpstreamReceive(f)
    \/ UpstreamDisconnect
    \/ UpstreamReceiveClosed

DownstreamAwait ==
    \/ DownstreamStart
    \/ DownstreamStreamEnd
    \/ DownstreamStreamFail
    \/ \E e \in EventShapes : DownstreamNext(e)

DownstreamRun ==
    \/ DownstreamSendEvent
    \/ DownstreamSendEnd
    \/ DownstreamSetFlag
    \/ DownstreamCloseQueue
    \/ DownstreamBreak

Next ==
    \/ ClientDisconnect
    \/ Handler
    \/ Upstream
    \/ DownstreamAwait
    \/ DownstreamRun

Spec == Init /\ [][Next]_vars

\* The steps the program takes by itself: the event loop runs every task
\* that can run, the timeout of line 229 fires, a lost connection is
\* reported.  Nothing makes the client send a frame or the agent yield.
HandlerSteps ==
    \/ HandshakeDisconnect
    \/ HandshakeReceiveClosed
    \/ InitSession
    \/ StartGather
    \/ HandlerFinish

UpstreamSteps ==
    \/ UpstreamStart
    \/ UpstreamTimeout
    \/ UpstreamDisconnect
    \/ UpstreamReceiveClosed

FairSpec ==
    /\ Spec
    /\ WF_vars(HandlerSteps)
    /\ WF_vars(UpstreamSteps)
    /\ WF_vars(DownstreamRun)
    /\ WF_vars(DownstreamStart)

(***************************************************************************)
(* The scan of one event by itself: both pumps wait, the agent yields one  *)
(* event out of DetectorEvents, and downstream_task runs on it.            *)
(***************************************************************************)
DetectorConfig == Json("config", "Python", Absent, Absent, Absent, Absent)

DetectorInit ==
    /\ hPc = "gather"
    /\ ws = "connected"
    /\ nRecv = 1
    /\ config_received = TRUE
    /\ config_data = ConfigOf(DetectorConfig)
    /\ conversation_ended = FALSE
    /\ session_initialized = TRUE
    /\ queue = "open"
    /\ qlog = <<>>
    /\ clientOut = << AckFrame(ConfigOf(DetectorConfig).topic,
                               ConfigOf(DetectorConfig).title) >>
    /\ upPc = "recv"
    /\ downPc = "next"
    /\ event = NoEvent
    /\ should_end = FALSE
    /\ agentLog = <<>>
    /\ hsNonConfig = 0
    /\ config_frame = DetectorConfig
    /\ lateConfigs = 0
    /\ upIgnored = 0
    /\ upLog = <<>>

DetectorScan ==
    /\ agentLog = <<>>
    /\ \E e \in DetectorEvents : DownstreamNext(e)

DetectorNext ==
    \/ DetectorScan
    \/ DownstreamRun

DetectorSpec == DetectorInit /\ [][DetectorNext]_vars

(***************************************************************************)
(* The claims.                                                             *)
(***************************************************************************)
OfType(out, ty) == { i \in 1..Len(out) : out[i].type = ty }
NumOfType(out, ty) == Cardinality(OfType(out, ty))
Stopped == {"exited", "raised"}
NothingStarted ==
    /\ ~session_initialized
    /\ queue = "none"
    /\ upPc = "idle"
    /\ downPc = "idle"
    /\ NumOfType(clientOut, "config_ack") = 0

\* C1: while the session awaits its configuration, every frame that is not
\* a Config frame (text, image, other JSON type or binary audio) is answered
\* by exactly one error frame, and the session does not become active: no
\* config_ack, no request queue, no pump.
C1_HandshakeGating ==
    /\ NumOfType(clientOut, "error") = hsNonConfig
    /\ ~config_received =>
         /\ hPc \in {"wait_config", "returned"}
         /\ NothingStarted

\* C2: exactly one Config frame is accepted per session.  The first one
\* makes the session active once and is answered by one config_ack that
\* carries its topic and title ("General" and "Introduction" when absent);
\* no later frame, a Config frame received while active included, brings a
\* second config_ack or changes the topic or title.
C2_AckOf(obj) ==
    AckFrame(IF obj.topic = Absent THEN "General" ELSE obj.topic,
             IF obj.title = Absent THEN "Introduction" ELSE obj.title)

C2_OneConfigAccepted ==
    /\ [](/\ NumOfType(clientOut, "config_ack") = (IF config_received THEN 1 ELSE 0)
          /\ config_received =>
               /\ config_frame \in ConfigObjects
               /\ \E i \in 1..Len(clientOut) : clientOut[i] = C2_AckOf(config_frame)
               /\ config_data.topic = C2_AckOf(config_frame).topic
               /\ config_data.title = C2_AckOf(config_frame).title)
    /\ [][config_received =>
            /\ config_received'
            /\ config_data' = config_data
            /\ config_frame' = config_frame
            /\ NumOfType(clientOut', "config_ack") = 1]_vars

\* C2 witness: a Config frame was accepted with its title defaulted, and a
\* further Config frame has been received by the upstream pump since.
C2_Witness ==
    /\ config_received
    /\ config_frame.title = Absent
    /\ lateConfigs > 0
    /\ upPc = "recv"

\* C3: once the client has disconnected, or an unparseable text frame has
\* made the handler return, before any Config frame was accepted, the
\* handler never enters the streaming phase: no agent session, no request
\* queue, no pump and no config_ack, and a handler that has returned stays
\* returned.
C3_Aborted ==
    /\ ~config_received
    /\ ws # "connected" \/ hPc = "returned"

C3_NoStreamingAfterAbort ==
    /\ [](C3_Aborted => NothingStarted /\ hPc \in {"wait_config", "returned"})
    /\ [][C3_Aborted => C3_Aborted']_vars
    /\ [][hPc = "returned" => hPc' = "returned"]_vars
    /\ (C3_Aborted ~> hPc = "returned")

\* C3 witness: the handler has returned without a configuration.
C3_Witness ==
    /\ hPc = "returned"
    /\ ~config_received
    /\ nRecv > 0

NumCloseCalls(log) == Cardinality({ i \in 1..Len(log) : log[i].op = "close" })
NumSendCalls(log) == Cardinality({ i \in 1..Len(log) : log[i].op # "close" })

\* The last two frames sent are the terminal event and the end signal.
EndSent ==
    /\ Len(clientOut) >= 2
    /\ clientOut[Len(clientOut)] = EndFrame
    /\ clientOut[Len(clientOut) - 1] = EventFrame(event)
    /\ ShouldEnd(event)

\* C4: the frame of a terminal agent event is sent strictly before the
\* conversation_end frame, which follows it at once, and no frame of any
\* kind is sent after the conversation_end frame.
C4_TerminationOrdering ==
    \A i \in 1..Len(clientOut) :
        /\ clientOut[i].type = "conversation_end" =>
             /\ i = Len(clientOut)
             /\ i > 1
             /\ clientOut[i - 1].type = "event"
             /\ ShouldEnd(clientOut[i - 1].event)
        /\ (clientOut[i].type = "event" /\ ShouldEnd(clientOut[i].event)) =>
             \/ i = Len(clientOut)
             \/ i + 1 = Len(clientOut) /\ clientOut[i + 1] = EndFrame

\* C4 witness: the end signal went out after an earlier event, while the
\* upstream pump forwarded a frame and is still receiving.
C4_Witness ==
    /\ EndSent
    /\ Len(clientOut) >= 4
    /\ NumSendCalls(qlog) > 0
    /\ upPc = "recv"

\* C5: the ENDING sequence runs in the order terminal event sent, end
\* signal sent, flag set, queue closed, read loop stopped: the flag is never
\* true, and the queue never closed by the sequence, before both frames
\* have been sent.
C5_ShutdownOrder ==
    /\ downPc = "send_end" =>
         /\ ~conversation_ended
         /\ Len(clientOut) >= 1
         /\ clientOut[Len(clientOut)] = EventFrame(event)
         /\ ShouldEnd(event)
    /\ downPc = "set_flag" => EndSent /\ ~conversation_ended
    /\ conversation_ended => EndSent /\ downPc \in {"close", "break", "exited"}
    /\ downPc = "close" =>
         /\ conversation_ended
         /\ NumCloseCalls(qlog) = (IF hPc = "done" THEN 1 ELSE 0)
    /\ downPc = "break" => conversation_ended /\ queue = "closed"
    /\ (downPc = "exited" /\ conversation_ended) => queue = "closed"
    /\ (queue = "closed" /\ hPc # "done") => conversation_ended /\ EndSent

\* C5 witness: the sequence has run to its end while the handler still
\* waits for the upstream pump.
C5_Witness ==
    /\ downPc = "exited"
    /\ conversation_ended
    /\ queue = "closed"
    /\ hPc = "gather"

\* C6: whenever the handler has finished after the request queue was
\* created, the queue is closed.
C6_QueueClosedOnExit ==
    /\ hPc = "done" => queue = "closed"
    /\ hPc \in {"wait_config", "returned", "configured"} => queue = "none"

\* C6 witness: the handler has finished because a pump raised, with no
\* ENDING sequence.
C6_Witness ==
    /\ hPc = "done"
    /\ ~conversation_ended
    /\ upPc = "raised" \/ downPc = "raised"

\* C7: the queue goes from open to closed once and never back.  close() is
\* called by the ENDING sequence and by the finally block, so up to twice;
\* a call on a closed queue leaves it closed and makes no pump raise.
C7_EndingClosed == conversation_ended /\ downPc \in {"break", "exited"}

C8_UpstreamExitsAfterEnd == conversation_ended ~> (upPc \in Stopped)

\* C8 witness: the pump has left its loop on reading the flag, the client
\* still connected.
C8_Witness ==
    /\ conversation_ended
    /\ upPc = "exited"
    /\ ws = "connected"
    /\ hPc = "gather"

\* C9: if the client disconnects while the downstream pump waits for the
\* next agent event, then eventually both pumps have stopped and the queue
\* is closed.
C9_DisconnectDrains ==
    (hPc = "gather" /\ ws # "connected" /\ downPc = "next")
        ~> (upPc \in Stopped /\ downPc \in Stopped /\ queue = "closed")

\* C10: once a pump has raised or exited, the other pump is cancelled: it
\* receives nothing, forwards nothing and sends nothing from then on.
C10_FirstExitCancels ==
    [][/\ upPc \in Stopped =>
            /\ agentLog' = agentLog
            /\ clientOut' = clientOut
       /\ downPc \in Stopped =>
            /\ nRecv' = nRecv
            /\ NumSendCalls(qlog') = NumSendCalls(qlog)]_vars

\* C11: the ended-flag only ever goes from false to true, in the step of
\* the downstream pump's ENDING sequence that follows the end signal; a
\* step in which the upstream pump stops leaves the flag as it was.
C11_FlagSetOnlyByEnding ==
    [][/\ conversation_ended => conversation_ended'
       /\ conversation_ended' # conversation_ended =>
            /\ downPc = "set_flag"
            /\ downPc' = "close"
            /\ upPc' = upPc
            /\ EndSent
       /\ (upPc \notin Stopped /\ upPc' \in Stopped) =>
            conversation_ended' = conversation_ended]_vars

\* C11 witness: the upstream pump has stopped on a disconnect or an error
\* with the flag unset, the downstream pump still running.
C11_Witness ==
    /\ upPc \in Stopped
    /\ ~conversation_ended
    /\ downPc \in {"next", "send_event", "send_end", "set_flag"}

\* C12: the termination detector finds a text terminal exactly when the
\* text holds, as a whole word and whatever the case, one of the phrases
\* good bye / goodbye, farewell, lesson complete, end of lesson, with any
\* amount of whitespace, none included, between the words of the phrase.
C12_Phrases ==
    { <<"g","o","o","d"," ","b","y","e">>,
      <<"g","o","o","d","b","y","e">>,
      <<"f","a","r","e","w","e","l","l">>,
      <<"l","e","s","s","o","n"," ","c","o","m","p","l","e","t","e">>,
      <<"e","n","d"," ","o","f"," ","l","e","s","s","o","n">> }

\* How many characters of t before position m are no whitespace.
C12_LettersBefore(t, m) == Cardinality({ k \in 1..(m - 1) : ~IsSpace(t[k]) })

\* s[i..j] is the phrase p: the same letters, and whitespace only where p
\* has a space.
C12_IsPhrase(s, i, j, p) ==
    LET sub == SubSeq(s, i, j)
        letters == SelectSeq(sub, LAMBDA c : ~IsSpace(c))
        lettersP == SelectSeq(p, LAMBDA c : c # " ")
        gapsP == { C12_LettersBefore(p, m) :
                     m \in { n \in 1..Len(p) : p[n] = " " } }
    IN  /\ Len(letters) = Len(lettersP)
        /\ \A k \in 1..Len(letters) : Lower(letters[k]) = lettersP[k]
        /\ \A m \in 1..Len(sub) :
              IsSpace(sub[m]) => C12_LettersBefore(sub, m) \in gapsP

C12_HoldsPhrase(s) ==
    \E i \in 1..Len(s) :
        /\ IsWordChar(s[i])
        /\ i = 1 \/ ~IsWordChar(s[i - 1])
        /\ \E j \in i..Len(s) :
              /\ IsWordChar(s[j])
              /\ j = Len(s) \/ ~IsWordChar(s[j + 1])
              /\ \E p \in C12_Phrases : C12_IsPhrase(s, i, j, p)

C12_GoodbyeSeeYou == <<"G","o","o","d","b","y","e",","," ","s","e","e"," ","y","o","u","!">>
C12_LessonCompleteNow ==
    <<"t","h","e"," ","L","E","S","S","O","N"," "," "," ","C","O","M","P","L","E","T","E"," ","n","o","w">>
C12_Goodbyeville == <<"g","o","o","d","b","y","e","v","i","l","l","e">>

C12_Examples ==
    /\ end_pattern_search(C12_GoodbyeSeeYou)
    /\ end_pattern_search(C12_LessonCompleteNow)
    /\ ~end_pattern_search(C12_Goodbyeville)

C12_DetectorExact ==
    /\ (/\ downPc = "send_event"
        /\ Len(event.parts) = 1
        /\ event.parts[1].hasText)
         => (should_end <=> C12_HoldsPhrase(event.parts[1].text))
    /\ C12_Examples

\* C12 witness: "the LESSON   COMPLETE now" has been scanned and found
\* terminal.
C12_Witness ==
    /\ downPc = "send_event"
    /\ event = Event("parts", <<TextPart(C12_LessonCompleteNow)>>)
    /\ should_end

\* C13: the event frames sent to the client are, in order, the events the
\* agent produced: always a prefix of the agent's event sequence, short of
\* it by at most the one event the pump is handling or failed on, and equal
\* to it whenever the pump waits for the next event or is in the ENDING
\* sequence; nothing is consumed after the first terminal event, and
\* neither sequence is ever rewritten.
IsPrefix(a, b) ==
    /\ Len(a) <= Len(b)
    /\ \A i \in 1..Len(a) : a[i] = b[i]

C13_EventFrames == SelectSeq(clientOut, LAMBDA fr : fr.type = "event")
C13_Sent == [i \in 1..Len(C13_EventFrames) |-> C13_EventFrames[i].event]

C13_ForwardsInOrder ==
    /\ [](/\ IsPrefix(C13_Sent, agentLog)
          /\ Len(agentLog) <= Len(C13_Sent) + 1
          /\ downPc \in {"next", "send_end", "set_flag", "close", "break",
                          "exited"} => C13_Sent = agentLog
          /\ \A i \in 1..(Len(agentLog) - 1) : ~ShouldEnd(agentLog[i]))
    /\ [][/\ IsPrefix(agentLog, agentLog')
          /\ IsPrefix(clientOut, clientOut')]_vars

\* C13 witness: two different events have been forwarded, the second one
\* terminal.
C13_Witness ==
    /\ Len(agentLog) = 2
    /\ C13_Sent = agentLog
    /\ agentLog[1] # agentLog[2]
    /\ ShouldEnd(agentLog[2])

\* C14: the calls the upstream pump makes on the request queue are, in
\* receipt order and one for one, the handled frames it received: a binary
\* frame gives a realtime audio blob, a text-type frame a content message,
\* an image-type frame a realtime blob of its mimeType, image/jpeg when it
\* names none; the calls made are never rewritten.
C14_Sends == SelectSeq(qlog, LAMBDA c : c.op # "close")

C14_CallOf(f) ==
    IF f.ws = "bytes" THEN [op |-> "send_realtime", mime |-> "audio/pcm;rate=16000"]
    ELSE IF f.obj.type = "text" THEN [op |-> "send_content", mime |-> Absent]
    ELSE [op |-> "send_realtime",
          mime |-> IF f.obj.mimeType = Absent THEN "image/jpeg"
                   ELSE f.obj.mimeType]

C14_ForwardsInOrder ==
    /\ [](C14_Sends = [i \in 1..Len(upLog) |-> C14_CallOf(upLog[i])])
    /\ [][IsPrefix(qlog, qlog') /\ IsPrefix(upLog, upLog')]_vars

\* C14 witness: two frames of different kinds have been forwarded, an
\* image with no mimeType among them.
C14_Witness ==
    /\ Len(upLog) = 2
    /\ upLog[1].ws # upLog[2].ws
    /\ \E i \in 1..2 : /\ upLog[i].ws = "text"
                       /\ upLog[i].obj.type = "image"
                       /\ upLog[i].obj.mimeType = Absent
    /\ Len(C14_Sends) = 2

\* C15: an agent event is treated as terminal, that is, it starts the
\* ENDING sequence, if and only if at least one of its text parts matches
\* the termination pattern; an event with no content, with no parts or with
\* no text part is never terminal.
C15_TextParts(e) ==
    IF e.content # "parts" THEN {}
    ELSE { i \in 1..Len(e.parts) : e.parts[i].hasText /\ e.parts[i].text # <<>> }

C15_Terminal(e) ==
    \E i \in C15_TextParts(e) : end_pattern_search(e.parts[i].text)

C15_Ending ==
    \/ downPc \in {"send_end", "set_flag", "close", "break"}
    \/ conversation_ended
    \/ NumOfType(clientOut, "conversation_end") > 0

C15_TerminalIffTextMatches ==
    LET last == agentLog[Len(agentLog)]
    IN  /\ downPc = "send_event" => (should_end <=> C15_Terminal(event))
        /\ C15_Ending => (agentLog # <<>> /\ C15_Terminal(last))
        /\ (/\ agentLog # <<>>
            /\ downPc \notin {"send_event", "raised"}
            /\ C15_Terminal(last)) => C15_Ending
        /\ (agentLog # <<>> /\ C15_TextParts(last) = {}) =>
              (~C15_Ending /\ ~should_end)

\* C15 witness: an event with an empty text part, an audio part and, last,
\* a matching text part has started the ENDING sequence.
C15_Witness ==
    /\ event = Event("parts", <<TextPart(<<>>), AudioPart, TextPart(TxtGoodBye)>>)
    /\ downPc = "set_flag"
    /\ NumOfType(clientOut, "conversation_end") = 1

\* C16: when the upstream pump receives a JSON object whose type is neither
\* text nor image (a config frame, another type, no type at all), nothing
\* is sent to the request queue or to the client, the ended-flag and the
\* queue stay as they are, and the pump does not stop: it waits for the
\* next frame unless the flag was set meanwhile.
C16_IgnoredReceived == lateConfigs' + upIgnored' > lateConfigs + upIgnored

C16_UnknownTypeIgnored ==
    [][C16_IgnoredReceived =>
         /\ qlog' = qlog
         /\ queue' = queue
         /\ clientOut' = clientOut
         /\ conversation_ended' = conversation_ended
         /\ upLog' = upLog
         /\ hPc' = hPc
         /\ upPc' # "raised"
         /\ ~conversation_ended => upPc' = "recv"]_vars

\* C16 witness: a frame of another type has been received while ACTIVE and
\* the pump waits for the next frame.
C16_Witness ==
    /\ upIgnored = 1
    /\ lateConfigs = 1
    /\ upPc = "recv"
    /\ ~conversation_ended
    /\ hPc = "gather"
    /\ queue = "open"
    /\ qlog = <<>>

\* C17: a text frame that fails to decode while ACTIVE makes the upstream
\* pump exit for good, with nothing forwarded to the queue and nothing sent
\* to the client for that frame; the handler's teardown then runs and the
\* request queue ends up closed.
C17_BadFrameFatal ==
    /\ [][(upPc # "raised" /\ upPc' = "raised") =>
            /\ upPc = "recv"
            /\ nRecv' = nRecv + 1
            /\ qlog' = qlog
            /\ upLog' = upLog
            /\ clientOut' = clientOut]_vars
    /\ [][upPc = "raised" => (upPc' = "raised" /\ nRecv' = nRecv)]_vars
    /\ (upPc = "raised") ~> (hPc = "done" /\ queue = "closed")

\* C17 witness: the pump raised on its first frame and the teardown has
\* closed the queue; the client got the config_ack and nothing else.
C17_Witness ==
    /\ upPc = "raised"
    /\ hPc = "done"
    /\ queue = "closed"
    /\ qlog = <<CloseCall>>
    /\ Len(clientOut) = 1
    /\ ~conversation_ended

\* C18: once the ended-flag is set and the ENDING sequence has closed the
\* request queue, the upstream pump makes no further send_realtime or
\* send_content call on the queue.
C18_NoSendAfterEnding ==
    [][C7_EndingClosed => NumSendCalls(qlog') = NumSendCalls(qlog)]_vars

\* C18 amended: after the first close() of the queue the upstream pump makes
\* at most one more send call, for a frame whose receive was pending when
\* the flag was set, and it has left its loop once that call is made.
C18_FirstClose == CHOOSE i \in 1..Len(qlog) :
    /\ qlog[i].op = "close"
    /\ \A k \in 1..(i - 1) : qlog[k].op # "close"

C18_SendsAfterClose ==
    IF NumCloseCalls(qlog) = 0 THEN 0
    ELSE Cardinality({ i \in (C18_FirstClose + 1)..Len(qlog) :
                        qlog[i].op # "close" })

C18_AtMostOneSendAfterEnding ==
    /\ C18_SendsAfterClose <= 1
    /\ C18_SendsAfterClose = 1 =>
         /\ conversation_ended
         /\ upPc = "exited"

\* C18 witness: a frame was forwarded to the queue the ENDING sequence had
\* closed.
C18_Witness ==
    /\ C18_SendsAfterClose = 1
    /\ qlog[C18_FirstClose + 1].op # "close"
    /\ hPc = "gather"

\* C19: once the handler has run its finally block, neither pump takes a
\* further step: no frame is received, no agent event is consumed, nothing
\* is sent to the client and nothing to the request queue.
C19_QuietAfterFinally ==
    [][hPc = "done" =>
         /\ upPc' = upPc
         /\ downPc' = downPc
         /\ nRecv' = nRecv
         /\ agentLog' = agentLog
         /\ clientOut' = clientOut
         /\ NumSendCalls(qlog') = NumSendCalls(qlog)]_vars

\* C20: the ended-flag is set only if a conversation_end frame has been
\* sent; at most one such frame is sent, and only right after the frame of
\* a terminal agent event; when the downstream pump stops on an error, a
\* lost connection or the end of the agent's stream, no conversation_end
\* frame has been sent and the flag is not set.
C20_EndFrames == OfType(clientOut, "conversation_end")

C20_EndSignalExact ==
    /\ conversation_ended => Cardinality(C20_EndFrames) = 1
    /\ Cardinality(C20_EndFrames) <= 1
    /\ \A i \in C20_EndFrames :
         /\ i > 1
         /\ clientOut[i - 1].type = "event"
         /\ ShouldEnd(clientOut[i - 1].event)
    /\ (downPc = "raised" \/ (downPc = "exited" /\ ~C7_EndingClosed)) =>
         /\ C20_EndFrames = {}
         /\ ~conversation_ended

\* C20 witness: the connection was lost between the frame of a terminal
\* event and the conversation_end frame; the session ends with no
\* conversation_end frame and the flag unset.
C20_Witness ==
    /\ downPc = "raised"
    /\ ShouldEnd(event)
    /\ clientOut[Len(clientOut)] = EventFrame(event)
    /\ hPc = "done"
    /\ ~conversation_ended

=============================================================================
